---- MODULE Spec2Model ----
(***************************************************************************)
(* Model of the mikan-pro plugin: the Episode table (peewee / sqlite), the *)
(* in-memory list Mikan.pending_task, the periodic job                     *)
(* mikan_poller -> Mikan.scheduled_job -> fetch_feeds ; check_jobs, the    *)
(* aria2 JSON-RPC calls made through Aria2Client.call, and the             *)
(* fire-and-forget display_files tasks.                                    *)
(*                                                                         *)
(* A coroutine is cut at its awaits: one action runs from one await (or    *)
(* the start) to the next one.  The reply of the daemon to a call in       *)
(* flight is a step of its own, so that the reply is part of the state the *)
(* resumed coroutine acts on.  feed entries are handled one step each.     *)
(*                                                                         *)
(* Library calls are taken by their evident meaning (Episode.select()      *)
(* .where(download_status=2) is the list of the rows with that status, in  *)
(* id order; the object call() returns is read as check_jobs and download  *)
(* read it).  The data flow of the program itself is modelled as written.  *)
(***************************************************************************)
EXTENDS Integers, Sequences, FiniteSets, TLC

\* ------------------------------------------------------------------ bounds
MaxEpisodes == 2      \* rows the Episode table may hold
MaxEntries == 2       \* entries of one fetched feed
MaxInstances == 2     \* instances of scheduled_job that may be in flight

\* --------------------------------------------------- Episode.download_status
\* src/mikan_pro.py:53  0 not started, 1 ignored, 2 downloading, 3 failed, 4 completed
NotStarted == 0
Ignored == 1
Downloading == 2
Failed == 3
Completed == 4

Terminal == {Ignored, Failed, Completed}

\* --------------------------------------------------------------- the inputs
NoHash == "nohash"    \* the hash column of a row that was given no hash
NoGid == "nogid"      \* aria2_gid is NULL
AddedGids == {"g1", "g2"}      \* gids addUri answers with
FollowedGids == {"g3", "g1"}   \* gids a followedBy list names
Gids == AddedGids \cup FollowedGids
Hashes == {"a", "b"}
FreeValues == {1, 2}  \* free space at the download path, in the unit of size

\* a feed entry, as add_ep reads it: links[0].href (its basename is the hash),
\* contentlength, links[-1].href
Candidates ==
    { [hash |-> "a", size |-> 1, url |-> "u-a"],
      [hash |-> "b", size |-> 2, url |-> "u-b"] }

RECURSIVE SeqsUpTo(_, _)
SeqsUpTo(S, n) ==
    IF n = 0 THEN { <<>> }
    ELSE LET shorter == SeqsUpTo(S, n - 1)
         IN  shorter \cup { Append(s, x) : s \in { q \in shorter : Len(q) = n - 1 }, x \in S }

EntryLists == SeqsUpTo(Candidates, MaxEntries)

\* the status values aria2 documents for tellStatus
DaemonStatuses == {"active", "waiting", "paused", "error", "complete", "removed"}
QuietStatuses == {"active", "waiting", "paused", "removed"}
FollowLists == { <<>>, <<"g3", "g1">> }
FileLists == { <<"d/f1">>, <<"d/f1", "d/f2">> }

\* what a call hands back to the awaiting coroutine: an exception, or the
\* decoded object.  check_jobs reads files from a reply only when it has no
\* followedBy and its status is complete (line 189): the model carries the
\* files of those replies only.
NoResp ==
    [raises |-> FALSE, result |-> NoGid, followedBy |-> <<>>, status |-> "", files |-> <<>>]
Raised == [NoResp EXCEPT !.raises = TRUE]
AddUriResponses == { Raised } \cup { [NoResp EXCEPT !.result = g] : g \in AddedGids }
FilesRead(fb, s) == fb = <<>> /\ s = "complete"
TellStatusResponses ==
    { Raised } \cup
    { [NoResp EXCEPT !.followedBy = x[1], !.status = x[2], !.files = x[3]] :
        x \in { y \in FollowLists \X DaemonStatuses \X (FileLists \cup {<<>>}) :
                  (y[3] # <<>>) <=> FilesRead(y[1], y[2]) } }

\* ------------------------------------------------- the JSON-RPC request body
\* JSON values as json= serialises them: a string, an array (from a list or a
\* tuple) of values, an object with one key
JStr(s) == [kind |-> "string", str |-> s, items |-> <<>>]
JArr(xs) == [kind |-> "array", str |-> "", items |-> xs]
JObj(k, v) == [kind |-> "object", str |-> k, items |-> <<v>>]

Secret == "5ec2e7"        \* aria2_secret, the value of secrets.token_hex(8)
DownloadPath == "path"    \* config['download_path']

\* f'token:{self.secret}'
Token(secret) == JStr("token:" \o secret)

\* Aria2Client.call(method, *params), lines 86-89: the value of 'params' in
\* the body.  params is the tuple of the caller's positional arguments and is
\* the second element of the list.
CallParams(secret, params) == <<Token(secret), JArr(params)>>

\* download, line 155: the positional arguments after the method name
AddUriArgs(url) == <<JArr(<<JStr(url)>>), JObj("dir", JStr(DownloadPath))>>

\* check_jobs, line 167: the positional argument after the method name
TellStatusArgs(gid) == <<JStr(gid)>>

\* ---------------------------------------------------------------- the state
VARIABLES
    store,          \* the Episode table: row id -> row (ids are 1..Len(store))
    pending_task,   \* Mikan.pending_task: a list of episode ids
    initialized,    \* initial_async has set config, pending_task and aria2
    free,           \* free space at config['download_path']
    tick,           \* instance of scheduled_job -> where it is, and its locals
    handlers,       \* display_files tasks created and not yet finished
    admitted,       \* history: row id -> the hash of the entry add_ep created it for
    quiet           \* history: episodes whose last poll answered a quiet status

vars == <<store, pending_task, initialized, free, tick, handlers, admitted, quiet>>

Ticks == 1 .. MaxInstances

IdleTick ==
    [pc |-> "idle", entries |-> <<>>, ep |-> 0, idx |-> 0,
     req |-> NoGid, resp |-> NoResp, polled |-> {}]

TypeOK ==
    /\ Len(store) <= MaxEpisodes
    /\ \A i \in DOMAIN store :
          /\ store[i].hash \in Hashes \cup {NoHash}
          /\ store[i].aria2_gid \in Gids \cup {NoGid}
          /\ store[i].download_status \in NotStarted .. Completed
    /\ \A k \in DOMAIN pending_task : pending_task[k] \in DOMAIN store
    /\ initialized \in BOOLEAN
    /\ free \in FreeValues
    /\ \A t \in Ticks :
          tick[t].pc \in {"idle", "fetch", "entries", "addUri", "addUri_ret",
                          "tellStatus", "tellStatus_ret"}
    /\ admitted \in [DOMAIN store -> Hashes]
    /\ quiet \subseteq DOMAIN store

Init ==
    /\ store = <<>>
    /\ pending_task = <<>>
    /\ initialized = FALSE
    /\ free \in FreeValues
    /\ tick = [t \in Ticks |-> IdleTick]
    /\ handlers = {}
    /\ admitted = <<>>
    /\ quiet = {}

\* ------------------------------------------------------------------ helpers
UpdateTick(t, rec) == [tick EXCEPT ![t] = rec]

\* Episode.get_or_none(hash=hash_): the rows whose hash column equals hash_
RowsWithHash(st, h) == { i \in DOMAIN st : st[i].hash = h }

\* Episode.create(title=, size=, pub_time=, torrent_url=, download_status=0):
\* the row holds the fields the call passes; it passes no hash
NewEpisode(c) ==
    [hash |-> NoHash, size |-> c.size, torrent_url |-> c.url,
     aria2_gid |-> NoGid, download_status |-> NotStarted]

\* get_disk_spare_space(path) < e.size
SpaceIsShort(f, size) == f < size

\* mutant of RecoverPending: every row that was ever submitted is recovered
RecoverPendingSubmitted(st) ==
    SelectSeq([i \in 1 .. Len(st) |-> i], LAMBDA i : st[i].aria2_gid # NoGid)

\* Episode.select().where(download_status=2), in id order
RecoverPending(st) ==
    SelectSeq([i \in 1 .. Len(st) |-> i], LAMBDA i : st[i].download_status = Downloading)

\* list.remove(x): drops the first element equal to x (x is in the list)
RemoveFirst(s, x) ==
    LET k == CHOOSE i \in DOMAIN s : s[i] = x /\ \A j \in 1 .. i - 1 : s[j] # x
    IN  SubSeq(s, 1, k - 1) \o SubSeq(s, k + 1, Len(s))

InList(s, x) == \E k \in DOMAIN s : s[k] = x

\* mutant of DownloadResult: the gid is stored, the status is not
DownloadResultKeepsStatus(row, resp) ==
    IF resp.raises THEN row ELSE [row EXCEPT !.aria2_gid = resp.result]

\* mutant of DownloadResult: an exception marks the episode Failed
DownloadResultMarksFailed(row, resp) ==
    IF resp.raises THEN [row EXCEPT !.download_status = Failed]
    ELSE [row EXCEPT !.aria2_gid = resp.result, !.download_status = Downloading]

\* download, lines 154-161: the row after the call; an exception is logged and
\* the row left alone, a result is stored as the gid of a downloading episode
DownloadResult(row, resp) ==
    IF resp.raises THEN row
    ELSE [row EXCEPT !.aria2_gid = resp.result, !.download_status = Downloading]

\* mutant of DownloadPending: the episode is appended whatever the call did
DownloadPendingAlways(pend, e, resp) == Append(pend, e)

\* download, lines 156-158 and 162: the list after the call
DownloadPending(pend, e, resp) == IF resp.raises THEN pend ELSE Append(pend, e)

\* mutant of FollowedGid: the last followed gid
FollowedGidLast(fb) == fb[Len(fb)]

\* check_jobs, line 170: the gid taken from a non-empty followedBy
FollowedGid(fb) == fb[1]

\* mutants of ReportedStatus: the two stores swapped; an error puts the
\* episode back to NotStarted
ReportedStatusSwapped(s) == IF s = "error" THEN Completed ELSE Failed
ReportedStatusRetry(s) == IF s = "error" THEN NotStarted ELSE Completed

\* check_jobs, lines 180-188: the status a reported daemon status stores
ReportedStatus(s) == IF s = "error" THEN Failed ELSE Completed

\* check_jobs, line 166: the for statement asks the list iterator for its next
\* element: the element at the iterator's position in the list as it is now,
\* or the end of the loop (and of scheduled_job) when the position is past the
\* end.  With an element, line 167 sends tellStatus with the gid of the
\* episode object.
CheckNext(tk, pend, st) ==
    IF tk.idx < Len(pend)
    THEN LET e == pend[tk.idx + 1]
         IN  [tk EXCEPT !.pc = "tellStatus", !.ep = e, !.idx = tk.idx + 1,
                        !.req = st[e].aria2_gid, !.resp = NoResp,
                        !.polled = @ \cup {e}]
    ELSE IdleTick

\* fetch_feeds, line 130, after one entry: the next entry, or, with none left,
\* scheduled_job goes on to check_jobs (line 117)
AfterEntry(tk, rest, pend, st) ==
    IF rest # <<>>
    THEN [tk EXCEPT !.pc = "entries", !.entries = rest, !.ep = 0,
                    !.req = NoGid, !.resp = NoResp]
    ELSE CheckNext([IdleTick EXCEPT !.pc = "check"], pend, st)

\* entries that instances in flight have still to hand to add_ep
EntriesInFlight == LET RECURSIVE Sum(_)
                       Sum(n) == IF n = 0 THEN 0 ELSE Len(tick[n].entries) + Sum(n - 1)
                   IN  Sum(MaxInstances)

\* ------------------------------------------------------------------ actions

\* initial(), lines 218-220, creates the task; initial_async, lines 87-104:
\* after the await of MikanConfig.load, config, pending_task and aria2 are set
\* without another await
InitialAsync ==
    /\ ~initialized
    /\ initialized' = TRUE
    /\ pending_task' = RecoverPending(store)
    /\ UNCHANGED <<store, free, tick, handlers, admitted, quiet>>

\* the process dies and is started again: only the table survives
Restart ==
    /\ initialized
    /\ initialized' = FALSE
    /\ pending_task' = <<>>
    /\ tick' = [t \in Ticks |-> IdleTick]
    /\ handlers' = {}
    /\ UNCHANGED <<store, free, admitted, quiet>>

\* the free space at the download path changes (downloads, other programs)
DiskChange ==
    /\ \E f \in FreeValues : f # free /\ free' = f
    /\ UNCHANGED <<store, pending_task, initialized, tick, handlers, admitted, quiet>>

\* the scheduler runs the job in its first free instance
FirstFree(t) ==
    /\ tick[t].pc = "idle"
    /\ \A u \in Ticks : tick[u].pc = "idle" => t <= u

\* mikan_poller, lines 210-212 -> scheduled_job -> fetch_feeds, line 121: the
\* GET is sent.  Before initial_async has set config, line 121 raises
\* AttributeError and the instance ends where it started.  The interval
\* trigger does not start the job while an instance of it is running.
StartTick(t) ==
    /\ initialized
    /\ FirstFree(t)
    /\ \A u \in Ticks : tick[u].pc = "idle"
    /\ tick' = UpdateTick(t, [IdleTick EXCEPT !.pc = "fetch"])
    /\ UNCHANGED <<store, pending_task, initialized, free, handlers, admitted, quiet>>

\* the same, under a scheduler that starts the job while an instance of it
\* is still running
StartTickOverlap(t) ==
    /\ initialized
    /\ FirstFree(t)
    /\ \E u \in Ticks : tick[u].pc # "idle"
    /\ tick' = UpdateTick(t, [IdleTick EXCEPT !.pc = "fetch"])
    /\ UNCHANGED <<store, pending_task, initialized, free, handlers, admitted, quiet>>

\* fetch_feeds, lines 121-130: the request raises (the exception leaves
\* scheduled_job, check_jobs is not run)
FetchRaises(t) ==
    /\ tick[t].pc = "fetch"
    /\ tick' = UpdateTick(t, IdleTick)
    /\ UNCHANGED <<store, pending_task, initialized, free, handlers, admitted, quiet>>

\* fetch_feeds, lines 122-131: a response that is not 200 (return, line 125)
\* is a feed of no entries; otherwise the parsed feed's entries
FetchFeeds(t) ==
    /\ tick[t].pc = "fetch"
    /\ \E es \in EntryLists :
          /\ Len(store) + EntriesInFlight + Len(es) <= MaxEpisodes
          /\ tick' = UpdateTick(t, AfterEntry(tick[t], es, pending_task, store))
    /\ UNCHANGED <<store, pending_task, initialized, free, handlers, admitted, quiet>>

\* add_ep, line 140: the INSERT names no hash, and a table whose hash column is
\* NOT NULL refuses it; IntegrityError leaves add_ep, fetch_feeds and
\* scheduled_job
AddEpCreateRaises(t) ==
    /\ tick[t].pc = "entries"
    /\ RowsWithHash(store, Head(tick[t].entries).hash) = {}
    /\ tick' = UpdateTick(t, IdleTick)
    /\ UNCHANGED <<store, pending_task, initialized, free, handlers, admitted, quiet>>

\* add_ep, lines 135-150.  A row with the entry's hash: return (line 139).
\* None: the row is created; with too little space add_ep returns (lines
\* 147-149), else download sends addUri (line 155).
AddEp(t) ==
    /\ tick[t].pc = "entries"
    /\ LET c == Head(tick[t].entries)
           rest == Tail(tick[t].entries)
           e == Len(store) + 1
           st == Append(store, NewEpisode(c))
       IN  IF RowsWithHash(store, c.hash) # {}
           THEN /\ tick' = UpdateTick(t, AfterEntry(tick[t], rest, pending_task, store))
                /\ UNCHANGED <<store, admitted>>
           ELSE /\ store' = st
                /\ admitted' = Append(admitted, c.hash)
                /\ IF SpaceIsShort(free, st[e].size)
                   THEN tick' = UpdateTick(t, AfterEntry(tick[t], rest, pending_task, st))
                   ELSE tick' = UpdateTick(t, [tick[t] EXCEPT !.pc = "addUri", !.ep = e,
                                                              !.req = st[e].torrent_url])
    /\ UNCHANGED <<pending_task, initialized, free, handlers, quiet>>

\* Aria2Client.call, lines 79-97, for addUri: it raises or returns the object
AddUriReply(t) ==
    /\ tick[t].pc = "addUri"
    /\ \E r \in AddUriResponses :
          tick' = UpdateTick(t, [tick[t] EXCEPT !.pc = "addUri_ret", !.resp = r])
    /\ UNCHANGED <<store, pending_task, initialized, free, handlers, admitted, quiet>>

\* download, lines 156-162, then back in add_ep and fetch_feeds
Download(t) ==
    /\ tick[t].pc = "addUri_ret"
    /\ LET tk == tick[t]
           e == tk.ep
           st == [store EXCEPT ![e] = DownloadResult(@, tk.resp)]
           pend == DownloadPending(pending_task, e, tk.resp)
       IN  /\ store' = st
           /\ pending_task' = pend
           /\ tick' = UpdateTick(t, AfterEntry(tk, Tail(tk.entries), pend, st))
    /\ UNCHANGED <<initialized, free, handlers, admitted, quiet>>

\* Aria2Client.call, lines 79-97, for tellStatus
TellStatusReply(t) ==
    /\ tick[t].pc = "tellStatus"
    /\ \E r \in TellStatusResponses :
          tick' = UpdateTick(t, [tick[t] EXCEPT !.pc = "tellStatus_ret", !.resp = r])
    /\ UNCHANGED <<store, pending_task, initialized, free, handlers, admitted, quiet>>

\* the jobs a daemon has lost: tellStatus for them is answered with an error
\* (call raises at line 93 or 96); for every other job this daemon answers
\* complete
VanishedGids == {"g1"}
DownResponse(gid) ==
    IF gid \in VanishedGids THEN Raised
    ELSE [NoResp EXCEPT !.status = "complete", !.files = <<"d/f1">>]

\* Aria2Client.call, lines 79-97, for tellStatus, with that daemon
TellStatusReplyDown(t) ==
    /\ tick[t].pc = "tellStatus"
    /\ tick' = UpdateTick(t, [tick[t] EXCEPT !.pc = "tellStatus_ret",
                                             !.resp = DownResponse(tick[t].req)])
    /\ UNCHANGED <<store, pending_task, initialized, free, handlers, admitted, quiet>>

\* check_jobs, line 167: the call raised; nothing catches it, the exception
\* leaves check_jobs and scheduled_job
CheckJobsRaises(t) ==
    /\ tick[t].pc = "tellStatus_ret"
    /\ tick[t].resp.raises
    /\ tick' = UpdateTick(t, IdleTick)
    /\ UNCHANGED <<store, pending_task, initialized, free, handlers, admitted, quiet>>

\* check_jobs, lines 168-172: followedBy is not empty
CheckJobsFollowed(t) ==
    /\ tick[t].pc = "tellStatus_ret"
    /\ ~tick[t].resp.raises
    /\ tick[t].resp.followedBy # <<>>
    /\ LET tk == tick[t]
           st == [store EXCEPT ![tk.ep].aria2_gid = FollowedGid(tk.resp.followedBy)]
       IN  /\ store' = st
           /\ tick' = UpdateTick(t, CheckNext(tk, pending_task, st))
           /\ quiet' = quiet \ {tk.ep}
    /\ UNCHANGED <<pending_task, initialized, free, handlers, admitted>>

\* check_jobs, lines 173-179 and 191-192: a status that changes nothing
CheckJobsQuiet(t) ==
    /\ tick[t].pc = "tellStatus_ret"
    /\ ~tick[t].resp.raises
    /\ tick[t].resp.followedBy = <<>>
    /\ tick[t].resp.status \notin {"error", "complete"}
    /\ tick' = UpdateTick(t, CheckNext(tick[t], pending_task, store))
    /\ quiet' = quiet \cup {tick[t].ep}
    /\ UNCHANGED <<store, pending_task, initialized, free, handlers, admitted>>

\* check_jobs, lines 180-190: error or complete.  remove raises ValueError
\* when the episode is no longer in the list: the row is saved, the exception
\* leaves check_jobs, no task is created.
CheckJobsEnded(t) ==
    /\ tick[t].pc = "tellStatus_ret"
    /\ ~tick[t].resp.raises
    /\ tick[t].resp.followedBy = <<>>
    /\ tick[t].resp.status \in {"error", "complete"}
    /\ LET tk == tick[t]
           e == tk.ep
           st == [store EXCEPT ![e].download_status = ReportedStatus(tk.resp.status)]
       IN  /\ store' = st
           /\ quiet' = quiet \ {e}
           /\ IF InList(pending_task, e)
              THEN LET pend == RemoveFirst(pending_task, e)
                   IN  /\ pending_task' = pend
                       /\ handlers' = IF tk.resp.status = "complete"
                                      THEN handlers \cup {[ep |-> e, files |-> tk.resp.files]}
                                      ELSE handlers
                       /\ tick' = UpdateTick(t, CheckNext([tk EXCEPT !.polled = @ \ {e}],
                                                            pend, st))
              ELSE /\ tick' = UpdateTick(t, IdleTick)
                   /\ UNCHANGED <<pending_task, handlers>>
    /\ UNCHANGED <<initialized, free, admitted>>

\* mutant of DisplayFiles: a task that ends puts its episode back to
\* Downloading and into the list
DisplayFilesReverts ==
    /\ \E h \in handlers :
          /\ handlers' = handlers \ {h}
          /\ store' = [store EXCEPT ![h.ep].download_status = Downloading]
          /\ pending_task' = Append(pending_task, h.ep)
    /\ UNCHANGED <<initialized, free, tick, admitted, quiet>>

\* display_files, lines 194-201: the task runs to its end or fails; either
\* way nothing of the model changes but the task being gone
DisplayFiles ==
    /\ \E h \in handlers : handlers' = handlers \ {h}
    /\ UNCHANGED <<store, pending_task, initialized, free, tick, admitted, quiet>>

TickStep(t) ==
    \/ FetchRaises(t)
    \/ FetchFeeds(t)
    \/ AddEpCreateRaises(t)
    \/ AddEp(t)
    \/ AddUriReply(t)
    \/ Download(t)
    \/ TellStatusReply(t)
    \/ CheckJobsRaises(t)
    \/ CheckJobsFollowed(t)
    \/ CheckJobsQuiet(t)
    \/ CheckJobsEnded(t)

Next ==
    \/ InitialAsync
    \/ Restart
    \/ DiskChange
    \/ DisplayFiles
    \/ \E t \in Ticks : StartTick(t) \/ TickStep(t)

Spec == Init /\ [][Next]_vars

\* the same program under a scheduler that lets instances of the job overlap
\* (one life of the process, the disk and the display_files tasks left out)
NextOverlap ==
    \/ InitialAsync
    \/ \E t \in Ticks : StartTick(t) \/ StartTickOverlap(t) \/ TickStep(t)

SpecOverlap == Init /\ [][NextOverlap]_vars

\* the program under a scheduler that keeps firing the job (line 210), an
\* event loop that runs every task it was given (line 220) and calls that
\* all return or raise in the end
SpecLive ==
    /\ Spec
    /\ WF_vars(InitialAsync)
    /\ WF_vars(\E t \in Ticks : StartTick(t))
    /\ WF_vars(\E t \in Ticks : TickStep(t))

\* one life of the process with a daemon that has lost some jobs and answers
\* complete for the others, feeds that can be fetched and rows that can be
\* created; the scheduler keeps firing the job and every call returns
TickStepDown(t) ==
    \/ FetchFeeds(t)
    \/ AddEp(t)
    \/ AddUriReply(t)
    \/ Download(t)
    \/ TellStatusReplyDown(t)
    \/ CheckJobsRaises(t)
    \/ CheckJobsEnded(t)

NextDown ==
    \/ InitialAsync
    \/ DiskChange
    \/ DisplayFiles
    \/ \E t \in Ticks : StartTick(t) \/ TickStepDown(t)

SpecDown ==
    /\ Init /\ [][NextDown]_vars
    /\ WF_vars(InitialAsync)
    /\ WF_vars(\E t \in Ticks : StartTick(t))
    /\ WF_vars(\E t \in Ticks : TickStepDown(t))

\* ------------------------------------------------------------------- claims

\* instance t of scheduled_job, waiting at p, takes a step of its own (a
\* restart takes initialized away)
Resumes(t, p) == tick[t].pc = p /\ tick'[t] # tick[t] /\ initialized'

StatusOf(i) == store[i].download_status

\* C1: once a row's status is Ignored, Failed or Completed, no step (admit,
\* submit, a step of a reconciliation pass, a restart) changes it.
C1_TerminalIsFinal ==
    [][\A i \in DOMAIN store :
          StatusOf(i) \in Terminal =>
              i \in DOMAIN store' /\ store'[i].download_status = StatusOf(i)]_vars

\* a pass has a reply in hand for one episode while another row is Completed
\* and its display_files task is gone
C1_Witness ==
    \E i \in DOMAIN store :
        /\ StatusOf(i) = Completed
        /\ \A h \in handlers : h.ep # i
        /\ \E t \in Ticks : tick[t].pc = "tellStatus_ret" /\ tick[t].ep # i

\* C2 (as claimed): no two rows carry the same hash, and no two rows were
\* created for entries of the same hash.
C2_UniqueHash ==
    \A i, j \in DOMAIN store :
        i # j => store[i].hash # store[j].hash /\ admitted[i] # admitted[j]

\* C3 (as claimed): add_ep with an entry whose hash a row was created for
\* changes neither the table nor the list and sends no addUri.
C3_ReAdmitIsNoOp ==
    [][\A t \in Ticks :
          (Resumes(t, "entries")
             /\ \E i \in DOMAIN store : admitted[i] = Head(tick[t].entries).hash)
          => /\ store' = store
             /\ pending_task' = pending_task
             /\ tick'[t].pc # "addUri"]_vars

\* C4 (as claimed): a row created for an entry of size S with free space F is
\* Ignored exactly if S > F; with S <= F it is handed to download, and with
\* S > F no addUri is sent.
C4_IgnoredIffNoSpace ==
    [][\A t \in Ticks :
          (Resumes(t, "entries") /\ Len(store') = Len(store) + 1)
          => LET e == Len(store')
             IN  /\ store'[e].download_status = Ignored <=> store'[e].size > free
                 /\ store'[e].size <= free => tick'[t].pc = "addUri" /\ tick'[t].ep = e
                 /\ store'[e].size > free => tick'[t].pc # "addUri"]_vars

\* C5: when download resumes with a result g for a NotStarted episode, the row
\* is Downloading with gid g and the episode is in pending_task.
C5_AcceptedIsDownloading ==
    [][\A t \in Ticks :
          (Resumes(t, "addUri_ret") /\ ~tick[t].resp.raises)
          => LET e == tick[t].ep
             IN  /\ StatusOf(e) = NotStarted
                 /\ store'[e].download_status = Downloading
                 /\ store'[e].aria2_gid = tick[t].resp.result
                 /\ InList(pending_task', e)]_vars

\* the newest row was accepted with gid g2 and fetch_feeds is back at its
\* next entry
C5_Witness ==
    /\ store # <<>>
    /\ StatusOf(Len(store)) = Downloading
    /\ store[Len(store)].aria2_gid = "g2"
    /\ InList(pending_task, Len(store))
    /\ \E t \in Ticks : tick[t].pc = "entries"

\* C6: when the addUri call raised, download returns normally (the instance
\* goes on with the next entry, or with check_jobs), the row is as before
\* (NotStarted, no gid), the episode is not in pending_task; and addUri is
\* only ever sent for a row created in the same step, so never again for it.
C6_RejectedStaysNotStarted ==
    [][\A t \in Ticks :
          /\ (Resumes(t, "addUri_ret") /\ tick[t].resp.raises)
             => LET e == tick[t].ep
                    rest == Tail(tick[t].entries)
                IN  /\ store' = store
                    /\ StatusOf(e) = NotStarted
                    /\ store[e].aria2_gid = NoGid
                    /\ pending_task' = pending_task
                    /\ ~InList(pending_task', e)
                    /\ rest # <<>> => tick'[t].pc = "entries" /\ tick'[t].entries = rest
                    /\ (rest = <<>> /\ pending_task # <<>>) => tick'[t].pc = "tellStatus"
          /\ (tick'[t].pc = "addUri" /\ tick[t].pc # "addUri")
             => tick'[t].ep \notin DOMAIN store]_vars

\* the addUri call for the last entry of a feed has raised, with another
\* episode downloading
C6_Witness ==
    \E t \in Ticks :
        /\ tick[t].pc = "addUri_ret"
        /\ tick[t].resp.raises
        /\ Len(tick[t].entries) = 1
        /\ StatusOf(tick[t].ep) = NotStarted
        /\ pending_task # <<>>

\* C7: when check_jobs resumes with a reply whose followedBy is not empty,
\* whatever its status: the row's gid becomes the first followed gid, its
\* status stays Downloading, pending_task and the display_files tasks are as
\* before; and every tellStatus is sent with the gid the row holds then.
C7_FollowedByRewritesGid ==
    [][\A t \in Ticks :
          /\ (Resumes(t, "tellStatus_ret") /\ ~tick[t].resp.raises
                /\ tick[t].resp.followedBy # <<>>)
             => LET e == tick[t].ep
                IN  /\ store'[e].aria2_gid = Head(tick[t].resp.followedBy)
                    /\ StatusOf(e) = Downloading
                    /\ store'[e].download_status = Downloading
                    /\ pending_task' = pending_task
                    /\ InList(pending_task', e)
                    /\ handlers' = handlers
          /\ (tick'[t].pc = "tellStatus" /\ tick'[t] # tick[t])
             => tick'[t].req = store'[tick'[t].ep].aria2_gid]_vars

\* an episode is polled under a gid that only a followedBy list names
C7_Witness ==
    \E t \in Ticks :
        /\ tick[t].pc = "tellStatus"
        /\ tick[t].req = "g3"
        /\ StatusOf(tick[t].ep) = Downloading
        /\ InList(pending_task, tick[t].ep)

\* what C8 says of a reply with status error or complete
EndedAsReported(t) ==
    LET e == tick[t].ep
        r == tick[t].resp
    IN  /\ r.status = "error" => store'[e].download_status = Failed
        /\ r.status = "complete" => store'[e].download_status = Completed
        /\ r.status \in {"error", "complete"} => ~InList(pending_task', e)
        /\ r.status = "complete"
             => [ep |-> e, files |-> r.files] \in handlers'
        /\ handlers' # handlers <=> r.status = "complete"

\* C8 (as claimed): a reply with status error makes the row Failed, one with
\* status complete makes it Completed; the episode leaves pending_task in the
\* same step; a display_files task is created, with the reply's files,
\* exactly if the status was complete.
C8_EndedAsReported ==
    [][\A t \in Ticks :
          (Resumes(t, "tellStatus_ret") /\ ~tick[t].resp.raises) => EndedAsReported(t)]_vars

\* C8 (amended): the same, for a reply whose followedBy is empty.
C8_EndedAsReportedUnlessFollowed ==
    [][\A t \in Ticks :
          (Resumes(t, "tellStatus_ret") /\ ~tick[t].resp.raises
             /\ tick[t].resp.followedBy = <<>>) => EndedAsReported(t)]_vars

\* one episode is Completed with its task holding the two reported files,
\* another is Failed with no task, neither is in pending_task
C8_Witness ==
    \E i, j \in DOMAIN store :
        /\ StatusOf(i) = Completed
        /\ [ep |-> i, files |-> <<"d/f1", "d/f2">>] \in handlers
        /\ StatusOf(j) = Failed
        /\ \A h \in handlers : h.ep # j
        /\ ~InList(pending_task, i)
        /\ ~InList(pending_task, j)

\* C9 (as claimed): a reply with no followedBy and status active, waiting,
\* paused or removed leaves the table and pending_task as they are, and an
\* episode whose last reply was such a reply has been polled in every pass
\* that runs to its end.
C9_QuietIsRepolled ==
    [][\A t \in Ticks :
          /\ (Resumes(t, "tellStatus_ret") /\ ~tick[t].resp.raises
                /\ tick[t].resp.followedBy = <<>>
                /\ tick[t].resp.status \in QuietStatuses)
             => store' = store /\ pending_task' = pending_task
          /\ (Resumes(t, "tellStatus_ret") /\ ~tick[t].resp.raises
                /\ tick'[t].pc = "idle")
             => quiet' \subseteq tick[t].polled]_vars

\* C10: no step of a pass (nor any other step) removes a row, and a row that
\* is Downloading is Downloading, Failed or Completed after the step.
C10_DownloadingStaysKnown ==
    [][/\ Len(store') >= Len(store)
       /\ \A i \in DOMAIN store :
             StatusOf(i) = Downloading
                => store'[i].download_status \in {Downloading, Failed, Completed}]_vars

\* a pass has ended (here: interrupted or run to its end) leaving one episode
\* Failed and another Downloading
C10_Witness ==
    /\ initialized
    /\ \A t \in Ticks : tick[t].pc = "idle"
    /\ \E i, j \in DOMAIN store :
          /\ StatusOf(i) = Failed
          /\ StatusOf(j) = Downloading
          /\ InList(pending_task, j)

\* the call of instance t is waiting at p with the exception raised for
\* episode e
RaisedFor(t, p, e) == tick[t].pc = p /\ tick[t].resp.raises /\ tick[t].ep = e

\* C11: a tellStatus call that raises for one episode is caught for that
\* episode: the pass goes on with the episodes after it in pending_task as
\* after any other reply, it does not end with the exception.
C11_RaiseIsCaught ==
    [][\A t \in Ticks :
         Resumes(t, "tellStatus_ret") /\ tick[t].resp.raises
         => tick'[t] = CheckNext(tick[t], pending_task, store)]_vars

\* C12: a tellStatus call that raises leaves the row and pending_task as they
\* were (status Downloading, the same gid, still in the list), and the
\* episode is polled again afterwards while the process stays up.
C12_RaisedIsRepolled ==
    /\ [][\A t \in Ticks :
            Resumes(t, "tellStatus_ret") /\ tick[t].resp.raises
            => /\ store' = store
               /\ pending_task' = pending_task
               /\ StatusOf(tick[t].ep) = Downloading
               /\ InList(pending_task, tick[t].ep)]_vars
    /\ \A e \in 1..MaxEpisodes :
          (\E t \in Ticks : RaisedFor(t, "tellStatus_ret", e))
          ~> (~initialized \/ \E t \in Ticks : tick[t].pc = "tellStatus" /\ tick[t].ep = e)

\* C13 as stated: an addUri call that raised is given up for the running
\* tick and, while the process stays up, addUri is sent again for the same
\* torrent afterwards.
C13_RejectedIsRetried ==
    \A e \in 1..MaxEpisodes :
        (\E t \in Ticks : RaisedFor(t, "addUri_ret", e))
        ~> \/ ~initialized
           \/ \E t \in Ticks : /\ tick[t].pc = "addUri"
                                /\ e \in DOMAIN store
                                /\ tick[t].req = store[e].torrent_url

\* C13, amended: an addUri call that raised is given up for good.  The
\* instance goes on, the row stays NotStarted without gid and outside
\* pending_task, and no later step of any instance sends addUri for a row
\* that is already stored.
C13_RejectedIsAbandoned ==
    [][\A t \in Ticks :
          /\ \A e \in DOMAIN store :
                (tick'[t].pc = "addUri" /\ tick'[t].ep = e)
                => (tick[t].pc = "addUri" /\ tick[t].ep = e)
          /\ (Resumes(t, "addUri_ret") /\ tick[t].resp.raises)
             => /\ store'[tick[t].ep].download_status = NotStarted
                /\ store'[tick[t].ep].aria2_gid = NoGid
                /\ ~InList(pending_task', tick[t].ep)
                /\ tick'[t].pc \in {"entries", "tellStatus", "idle"}]_vars

\* the addUri call for the first of two entries of a feed has raised
C13_Witness ==
    \E t \in Ticks :
        /\ tick[t].pc = "addUri_ret"
        /\ tick[t].resp.raises
        /\ Len(tick[t].entries) = 2

\* C14: when a display_files task ends, by an exception or not, its episode
\* is and stays Completed and outside pending_task, and the table, the list
\* and every instance of scheduled_job are where they were: no pass is
\* aborted or changed by it.
C14_HandlerLeavesAllAlone ==
    [][\A h \in handlers :
          (h \notin handlers' /\ initialized')
          => /\ StatusOf(h.ep) = Completed
             /\ store' = store
             /\ pending_task' = pending_task
             /\ ~InList(pending_task', h.ep)
             /\ tick' = tick]_vars

\* the task of a Completed episode is gone while a pass is waiting for the
\* reply about another episode
C14_Witness ==
    /\ initialized
    /\ \E i \in DOMAIN store :
          /\ StatusOf(i) = Completed
          /\ \A h \in handlers : h.ep # i
    /\ \E t \in Ticks : tick[t].pc = "tellStatus"

\* the episodes of a list
Members(s) == {s[k] : k \in DOMAIN s}

Submitted(st) == {i \in DOMAIN st : st[i].download_status = Downloading}

\* C15: as long as initial_async has not rebuilt pending_task no instance of
\* scheduled_job is at any call (no fetch, no addUri, no tellStatus), and
\* when a pass sends its first tellStatus the list holds exactly the
\* Downloading rows, each with a gid, the call carrying the stored gid.
C15_NothingBeforeRecovery ==
    /\ ~initialized => /\ \A t \in Ticks : tick[t] = IdleTick
                       /\ pending_task = <<>>
    /\ \A t \in Ticks :
          (tick[t].pc = "tellStatus" /\ tick[t].idx = 1)
          => /\ Members(pending_task) = Submitted(store)
             /\ \A i \in Members(pending_task) : store[i].aria2_gid # NoGid
             /\ tick[t].req = store[tick[t].ep].aria2_gid

\* the process is down, or up and not yet recovered, with a Downloading row
\* and a Completed row in the table
C15_Witness ==
    /\ ~initialized
    /\ \E i, j \in DOMAIN store :
          StatusOf(i) = Downloading /\ StatusOf(j) = Completed

\* C18: in a pass that runs to its end without an exception, every episode
\* of pending_task has been polled (the episodes the pass removed were
\* polled, those left in the list are the others).
C18_EveryMemberPolled ==
    [][\A t \in Ticks :
          (Resumes(t, "tellStatus_ret") /\ ~tick[t].resp.raises
             /\ tick'[t].pc = "idle")
          => Members(pending_task') \subseteq tick[t].polled]_vars

\* C20: once initial_async has run, at every await: an episode is in
\* pending_task exactly when its row is Downloading, every episode of the
\* list has a gid, and no episode is in the list twice.
C20_PendingIsDownloading ==
    initialized
    => /\ Members(pending_task) = Submitted(store)
       /\ \A k \in DOMAIN pending_task : store[pending_task[k]].aria2_gid # NoGid
       /\ \A k, l \in DOMAIN pending_task : pending_task[k] = pending_task[l] => k = l

\* in the middle of a pass one episode has been removed as Failed and the
\* list holds the other, whose reply has come
C20_Witness ==
    /\ initialized
    /\ Len(pending_task) = 1
    /\ \E i \in DOMAIN store : StatusOf(i) = Failed
    /\ \E t \in Ticks : tick[t].pc = "tellStatus_ret" /\ tick[t].idx = 1
                         /\ tick[t].ep = pending_task[1]

Polling(t) == tick[t].pc \in {"tellStatus", "tellStatus_ret"}

\* C16: whatever the interleaving of instances of scheduled_job, no two of
\* them are between the tellStatus for the same episode and the update that
\* follows its reply.
C16_OneSequencePerEpisode ==
    \A t, u \in Ticks :
        (t # u /\ Polling(t) /\ Polling(u)) => tick[t].ep # tick[u].ep

\* the positional arguments of the call instance t is waiting in, and the
\* params array of its request
ArgsInFlight(t) ==
    IF tick[t].pc = "addUri" THEN AddUriArgs(tick[t].req) ELSE TellStatusArgs(tick[t].req)
ParamsInFlight(t) == CallParams(Secret, ArgsInFlight(t))

\* C17: the params array of every request in flight is the token string
\* followed by the caller's positional arguments in their order, one element
\* each.
C17_TokenPrepended ==
    \A t \in Ticks :
        tick[t].pc \in {"addUri", "tellStatus"}
        => /\ Len(ParamsInFlight(t)) = Len(ArgsInFlight(t)) + 1
           /\ ParamsInFlight(t) = <<Token(Secret)>> \o ArgsInFlight(t)

\* C19: with the job fired for ever and a daemon that answers complete for
\* every job it still has, a Downloading episode whose job it has becomes
\* Completed and leaves pending_task, also when the polls of other episodes
\* of the list raise in every pass.
C19_AnsweredEpisodeEnds ==
    \A e \in 1 .. MaxEpisodes :
        (/\ e \in DOMAIN store
         /\ StatusOf(e) = Downloading
         /\ store[e].aria2_gid \notin VanishedGids)
        ~> (/\ e \in DOMAIN store
            /\ StatusOf(e) = Completed
            /\ ~InList(pending_task, e))


====
